---- MODULE Spec2Model ----
(***************************************************************************)
(* Agent messaging of leavea-app: the unified messaging module             *)
(* (unifiedMessages: comments, DMs, unread aggregation, read state), the   *)
(* legacy direct-message module (agentMessages) and the notifications      *)
(* table they both write.                                                  *)
(*                                                                         *)
(* Representation.  A program string is a sequence of one-character        *)
(* strings (<<"M","a","x">>), so that toLowerCase, slice, length and the   *)
(* mention regular expression are computed character by character.  Text  *)
(* that the code builds from a literal keeps the literal as one fragment   *)
(* (<<"DM from ">> \o name).  A missing optional string is Undef, a        *)
(* missing optional id is NoId, a missing read flag is "undefined".        *)
(* Document ids of tasks and agents are opaque strings; the _id of a       *)
(* message or notification is its insertion number in its table.           *)
(* A handler reads the clock once: every Date.now() of one call returns    *)
(* the same value.  Left out of the records: avatars, the title, projectId *)
(* and metadata of an activity event other than its source.                *)
(***************************************************************************)
EXTENDS Integers, Sequences, FiniteSets, TLC

VARIABLES
    unifiedMessages,  \* table "unifiedMessages", in insertion order
    agentMessages,    \* table "agentMessages" (legacy DMs), in insertion order
    notifications,    \* table "notifications", in insertion order
    activityEvents,   \* table "activityEvents", in insertion order
    now,              \* the latest value Date.now() has returned
    last,             \* the latest call: operation, arguments, outcome
    twin,             \* outcome of the same call on the legacy DM surface
    agents            \* table "agents", which the messaging code only reads

vars == <<unifiedMessages, agentMessages, notifications, activityEvents, now, last, twin, agents>>

----------------------------------------------------------------------------
(* Bounds of the model *)

MaxMsgs == 2       \* messages in the store, over both message tables
MaxTime == 1       \* values of the clock

----------------------------------------------------------------------------
(* Strings *)

Undef == <<"undefined">>
NoId == "undefined"

UpperLetters == <<"A","B","C","D","E","F","G","H","I","J","K","L","M",
                  "N","O","P","Q","R","S","T","U","V","W","X","Y","Z">>
LowerLetters == <<"a","b","c","d","e","f","g","h","i","j","k","l","m",
                  "n","o","p","q","r","s","t","u","v","w","x","y","z">>

LowerChar(c) ==
    IF \E i \in DOMAIN UpperLetters : UpperLetters[i] = c
    THEN LowerLetters[CHOOSE i \in DOMAIN UpperLetters : UpperLetters[i] = c]
    ELSE c

toLowerCase(s) == [i \in DOMAIN s |-> LowerChar(s[i])]

Min2(a, b) == IF a < b THEN a ELSE b

\* String.prototype.slice(0, n)
slice0(s, n) == SubSeq(s, 1, Min2(n, Len(s)))

\* JavaScript truthiness of an optional string
Truthy(s) == s # Undef /\ s # <<>>

\* Array.prototype.includes
includes(seq, x) == \E i \in DOMAIN seq : seq[i] = x

\* The same sort placing the later of two entries with equal keys first
sortTiesReversed(seq, keys, descending) ==
    LET n == Len(seq)
        before(j, i) == IF descending THEN keys[i] - keys[j] < 0 ELSE keys[j] - keys[i] < 0
        rank(i) == Cardinality({j \in 1..n : before(j, i) \/ (~before(i, j) /\ j > i)}) + 1
    IN [k \in 1..n |-> seq[CHOOSE i \in 1..n : rank(i) = k]]

\* Array.prototype.sort with a comparator on a numeric key, (a, b) => a.key - b.key
\* or, descending, (a, b) => b.key - a.key: a stable sort.  keys[i] is the key
\* of seq[i].
sortStable(seq, keys, descending) ==
    LET n == Len(seq)
        before(j, i) == IF descending THEN keys[i] - keys[j] < 0 ELSE keys[j] - keys[i] < 0
        rank(i) == Cardinality({j \in 1..n : before(j, i) \/ (~before(i, j) /\ j < i)}) + 1
    IN [k \in 1..n |-> seq[CHOOSE i \in 1..n : rank(i) = k]]

createdAtOf(seq) == [k \in DOMAIN seq |-> seq[k].createdAt]
timestampOf(seq) == [k \in DOMAIN seq |-> seq[k].timestamp]

\* .order("desc") on an index whose key fields are fixed by eq(): the index
\* orders by creation, so the scan is the table order reversed.
orderDesc(seq) == [k \in 1..Len(seq) |-> seq[Len(seq) + 1 - k]]

\* [...new Set(names)]: first occurrences, in order
RECURSIVE dedupe(_)
dedupe(seq) ==
    IF seq = <<>> THEN <<>>
    ELSE LET init == dedupe(SubSeq(seq, 1, Len(seq) - 1))
             x == seq[Len(seq)]
         IN IF includes(init, x) THEN init ELSE Append(init, x)

----------------------------------------------------------------------------
(* Mention parser *)

MentionAlternatives ==
    { <<"m","a","x">>, <<"s","a","m">>, <<"l","e","o">>, <<"s","o","n">>, <<"a","l","l">> }

AllAgents == << <<"m","a","x">>, <<"s","a","m">>, <<"l","e","o">>, <<"s","o","n">> >>

\* The same scan without the i flag: a name matches only as the pattern spells it
RECURSIVE regexMatchesExactCase(_, _)
regexMatchesExactCase(content, i) ==
    IF i > Len(content) THEN <<>>
    ELSE IF /\ content[i] = "@"
            /\ i + 3 <= Len(content)
            /\ SubSeq(content, i + 1, i + 3)
                  \in { <<"M","a","x">>, <<"S","a","m">>, <<"L","e","o">>, <<"S","o","n">>, <<"a","l","l">> }
         THEN <<SubSeq(content, i, i + 3)>> \o regexMatchesExactCase(content, i + 4)
         ELSE regexMatchesExactCase(content, i + 1)

\* content.match(/@(Max|Sam|Leo|Son|all)/gi): the matches from position i on,
\* left to right, not overlapping
RECURSIVE regexMatches(_, _)
regexMatches(content, i) ==
    IF i > Len(content) THEN <<>>
    ELSE IF /\ content[i] = "@"
            /\ i + 3 <= Len(content)
            /\ toLowerCase(SubSeq(content, i + 1, i + 3)) \in MentionAlternatives
         THEN <<SubSeq(content, i, i + 3)>> \o regexMatches(content, i + 4)
         ELSE regexMatches(content, i + 1)

\* parseMentions without the expansion of the wildcard
parseMentionsNoWildcard(content) ==
    LET matches == regexMatches(content, 1)
    IN dedupe([k \in DOMAIN matches |-> toLowerCase(SubSeq(matches[k], 2, Len(matches[k])))])

\* parseMentions returning the matched names without collapsing repetitions
parseMentionsKeepingRepeats(content) ==
    LET matches == regexMatches(content, 1)
        names == [k \in DOMAIN matches |-> toLowerCase(SubSeq(matches[k], 2, Len(matches[k])))]
    IN IF includes(names, <<"a","l","l">>) THEN AllAgents ELSE names

parseMentions(content) ==
    LET matches == regexMatches(content, 1)
        names == [k \in DOMAIN matches |-> toLowerCase(SubSeq(matches[k], 2, Len(matches[k])))]
    IN IF includes(names, <<"a","l","l">>) THEN AllAgents ELSE dedupe(names)

----------------------------------------------------------------------------
(* The agent directory and the ticket store, which the messaging code only reads *)

\* Table "agents" holds the three heartbeat agents, with or without a
\* document for "son", the fourth name the mention parser knows.
Heartbeat ==
    << [_id |-> "agent1", name |-> <<"M","a","x">>],
       [_id |-> "agent2", name |-> <<"S","a","m">>],
       [_id |-> "agent3", name |-> <<"L","e","o">>] >>

Rosters == {Heartbeat, Append(Heartbeat, [_id |-> "agent4", name |-> <<"S","o","n">>])}

NoAgent == [_id |-> NoId, name |-> Undef]

\* A lookup that falls back on the first agent when no name matches
findAgentOrFirst(nameLower) ==
    LET hits == {i \in DOMAIN agents : toLowerCase(agents[i].name) = nameLower}
    IN IF hits = {} THEN agents[1]
       ELSE agents[CHOOSE i \in hits : \A j \in hits : i <= j]

\* agents.find((a) => a.name.toLowerCase() === nameLower)
findAgent(nameLower) ==
    LET hits == {i \in DOMAIN agents : toLowerCase(agents[i].name) = nameLower}
    IN IF hits = {} THEN NoAgent
       ELSE agents[CHOOSE i \in hits : \A j \in hits : i <= j]

\* ctx.db.get(agentId)
getAgent(id) ==
    IF \E i \in DOMAIN agents : agents[i]._id = id
    THEN agents[CHOOSE i \in DOMAIN agents : agents[i]._id = id]
    ELSE NoAgent

\* agentMap.get(m.fromAgent)?.name || m.fromAgent
displayName(nameLower) ==
    IF Truthy(findAgent(nameLower).name) THEN findAgent(nameLower).name ELSE nameLower

\* Table "tasks": task1 carries a Linear identifier, task2 carries none, and
\* any other id (task9) resolves to nothing.
NoTask == [_id |-> NoId, linearIdentifier |-> Undef]

tasks ==
    << [_id |-> "task1", linearIdentifier |-> <<"A","G","T","-","9">>],
       [_id |-> "task2", linearIdentifier |-> Undef] >>

\* A lookup that falls back on the first task when the id resolves to nothing
getTaskOrFirst(id) ==
    IF \E i \in DOMAIN tasks : tasks[i]._id = id
    THEN tasks[CHOOSE i \in DOMAIN tasks : tasks[i]._id = id]
    ELSE tasks[1]

\* ctx.db.get(taskId)
getTask(id) ==
    IF \E i \in DOMAIN tasks : tasks[i]._id = id
    THEN tasks[CHOOSE i \in DOMAIN tasks : tasks[i]._id = id]
    ELSE NoTask

----------------------------------------------------------------------------
(* The store.  A handler is a function from the store (and its arguments) to *)
(* the store it leaves and its outcome; a handler that throws leaves the     *)
(* store as it found it (a Convex mutation is one transaction).              *)

DB == [unifiedMessages |-> unifiedMessages, agentMessages |-> agentMessages,
       notifications |-> notifications, activityEvents |-> activityEvents]

Returned(db, ret) == [db |-> db, ok |-> TRUE, ret |-> ret]
Thrown(db, error) == [db |-> db, ok |-> FALSE, ret |-> [error |-> error]]

\* A preview that cuts without saying so
previewNoEllipsis(content, n) == slice0(content, n)

\* `${content.slice(0, n)}${content.length > n ? "..." : ""}`
preview(content, n) == slice0(content, n) \o (IF Len(content) > n THEN <<"...">> ELSE <<>>)

PreviewWithTicket == 100
PreviewPlain == 150

UrgentMarker == "U+1F534 "

\* The notification of a DM with the plain title whatever the priority
dmNotificationPlainTitle(db, t, fromDoc, toDoc, content, relatedTaskId, priority, linearId) ==
    [_id |-> Len(db.notifications) + 1,
     to |-> toDoc._id,
     from |-> fromDoc._id,
     type |-> "dm",
     title |-> <<"DM from ">> \o fromDoc.name,
     message |-> IF Truthy(linearId)
                 THEN <<"Re: ">> \o linearId \o <<" -- ">> \o preview(content, PreviewWithTicket)
                 ELSE preview(content, PreviewPlain),
     read |-> FALSE,
     relatedTask |-> relatedTaskId,
     createdAt |-> t]

\* The notification of a DM addressed to the one who sent it
dmNotificationToSender(db, t, fromDoc, toDoc, content, relatedTaskId, priority, linearId) ==
    [_id |-> Len(db.notifications) + 1,
     to |-> fromDoc._id,
     from |-> fromDoc._id,
     type |-> "dm",
     title |-> IF priority = "urgent"
               THEN <<UrgentMarker, "Urgent DM from ">> \o fromDoc.name
               ELSE <<"DM from ">> \o fromDoc.name,
     message |-> IF Truthy(linearId)
                 THEN <<"Re: ">> \o linearId \o <<" -- ">> \o preview(content, PreviewWithTicket)
                 ELSE preview(content, PreviewPlain),
     read |-> FALSE,
     relatedTask |-> relatedTaskId,
     createdAt |-> t]

\* The notification of a DM, the same text in sendDM and sendDirectMessage
dmNotification(db, t, fromDoc, toDoc, content, relatedTaskId, priority, linearId) ==
    [_id |-> Len(db.notifications) + 1,
     to |-> toDoc._id,
     from |-> fromDoc._id,
     type |-> "dm",
     title |-> IF priority = "urgent"
               THEN <<UrgentMarker, "Urgent DM from ">> \o fromDoc.name
               ELSE <<"DM from ">> \o fromDoc.name,
     message |-> IF Truthy(linearId)
                 THEN <<"Re: ">> \o linearId \o <<" -- ">> \o preview(content, PreviewWithTicket)
                 ELSE preview(content, PreviewPlain),
     read |-> FALSE,
     relatedTask |-> relatedTaskId,
     createdAt |-> t]

----------------------------------------------------------------------------
(* Unified messaging: mutations *)

\* A fan-out that writes no notification at all when one mentioned name
\* resolves to no agent
mentionNotificationsAllOrNone(notifs, t, agent, agentNameLower, mentions, k, taskId, text) ==
    LET others == SelectSeq(mentions, LAMBDA n : n # agentNameLower)
    IN IF \E j \in DOMAIN others : findAgent(others[j]) = NoAgent
       THEN notifs
       ELSE notifs \o
            [j \in DOMAIN others |->
                [_id |-> Len(notifs) + j,
                 to |-> findAgent(others[j])._id,
                 from |-> agent._id,
                 type |-> "mention",
                 title |-> agent.name \o <<" mentioned you">>,
                 message |-> text,
                 read |-> FALSE,
                 relatedTask |-> taskId,
                 createdAt |-> t]]

\* The mention notifications of postComment's loop, for mentions[k..]
RECURSIVE mentionNotifications(_, _, _, _, _, _, _, _)
mentionNotifications(notifs, t, agent, agentNameLower, mentions, k, taskId, text) ==
    IF k > Len(mentions) THEN notifs
    ELSE LET mentionName == mentions[k]
             mentionedAgent == findAgent(mentionName)
         IN IF mentionName = agentNameLower
            THEN mentionNotifications(notifs, t, agent, agentNameLower, mentions, k + 1, taskId, text)
            ELSE IF mentionedAgent # NoAgent
            THEN mentionNotifications(
                     Append(notifs,
                            [_id |-> Len(notifs) + 1,
                             to |-> mentionedAgent._id,
                             from |-> agent._id,
                             type |-> "mention",
                             title |-> agent.name \o <<" mentioned you">>,
                             message |-> text,
                             read |-> FALSE,
                             relatedTask |-> taskId,
                             createdAt |-> t]),
                     t, agent, agentNameLower, mentions, k + 1, taskId, text)
            ELSE mentionNotifications(notifs, t, agent, agentNameLower, mentions, k + 1, taskId, text)

\* postComment storing the comment before it looks the task up
postCommentInsertThenCheck(db, t, taskId, agentName, content) ==
    LET task == getTask(taskId)
        message == [_id |-> Len(db.unifiedMessages) + 1,
                    fromAgent |-> toLowerCase(agentName),
                    toAgent |-> Undef,
                    taskId |-> taskId,
                    linearIdentifier |-> task.linearIdentifier,
                    content |-> content,
                    type |-> "comment",
                    mentions |-> parseMentions(content),
                    priority |-> "undefined",
                    read |-> "undefined",
                    createdAt |-> t]
        stored == [db EXCEPT !.unifiedMessages = Append(@, message)]
    IN IF task = NoTask THEN Thrown(stored, "Task not found")
       ELSE Returned(stored,
                     [messageId |-> message._id, taskId |-> taskId,
                      mentions |-> message.mentions,
                      linearIdentifier |-> task.linearIdentifier])

postComment(db, t, taskId, agentName, content) ==
    LET agentNameLower == toLowerCase(agentName)
        task == getTask(taskId)
        mentions == parseMentions(content)
        messageId == Len(db.unifiedMessages) + 1
        message == [_id |-> messageId,
                    fromAgent |-> agentNameLower,
                    toAgent |-> Undef,
                    taskId |-> taskId,
                    linearIdentifier |-> task.linearIdentifier,
                    content |-> content,
                    type |-> "comment",
                    mentions |-> mentions,     \* <<>> stands for undefined
                    priority |-> "undefined",
                    read |-> "undefined",
                    createdAt |-> t]
        agent == findAgent(agentNameLower)
        linearId == IF Truthy(task.linearIdentifier) THEN task.linearIdentifier
                    ELSE <<"task-", taskId>>
        event == [agentId |-> agent._id,
                  agentName |-> agentNameLower,
                  eventType |-> "comment",
                  taskId |-> taskId,
                  linearIdentifier |-> task.linearIdentifier,
                  source |-> "unified_messaging",
                  timestamp |-> t]
        text == <<"In ">> \o linearId \o <<": ">> \o preview(content, PreviewWithTicket)
    IN IF task = NoTask THEN Thrown(db, "Task not found")
       ELSE Returned(
              [db EXCEPT
                 !.unifiedMessages = Append(@, message),
                 !.activityEvents = IF agent # NoAgent THEN Append(@, event) ELSE @,
                 !.notifications =
                     IF agent # NoAgent
                     THEN mentionNotifications(@, t, agent, agentNameLower, mentions, 1, taskId, text)
                     ELSE @],
              [messageId |-> messageId, taskId |-> taskId, mentions |-> mentions,
               linearIdentifier |-> task.linearIdentifier])

sendDM(db, t, from, to, content, relatedTaskId, priorityArg) ==
    LET fromLower == toLowerCase(from)
        toLower == toLowerCase(to)
        priority == IF priorityArg = "undefined" THEN "normal" ELSE priorityArg
        linearIdentifier == IF relatedTaskId # NoId
                            THEN getTask(relatedTaskId).linearIdentifier
                            ELSE Undef
        messageId == Len(db.unifiedMessages) + 1
        message == [_id |-> messageId,
                    fromAgent |-> fromLower,
                    toAgent |-> toLower,
                    taskId |-> relatedTaskId,
                    linearIdentifier |-> linearIdentifier,
                    content |-> content,
                    type |-> "dm",
                    mentions |-> <<>>,
                    priority |-> priority,
                    read |-> "false",
                    createdAt |-> t]
        fromAgent == findAgent(fromLower)
        toAgent == findAgent(toLower)
        event == [agentId |-> fromAgent._id,
                  agentName |-> fromLower,
                  eventType |-> "dm_sent",
                  taskId |-> relatedTaskId,
                  linearIdentifier |-> linearIdentifier,
                  source |-> "unified_messaging",
                  timestamp |-> t]
        both == fromAgent # NoAgent /\ toAgent # NoAgent
    IN Returned(
         [db EXCEPT
            !.unifiedMessages = Append(@, message),
            !.notifications =
                IF both
                THEN Append(@, dmNotification(db, t, fromAgent, toAgent, content,
                                              relatedTaskId, priority, linearIdentifier))
                ELSE @,
            !.activityEvents = IF both THEN Append(@, event) ELSE @],
         [messageId |-> messageId, from |-> fromLower, to |-> toLower, priority |-> priority])

\* A patch that flips the read flag instead of setting it
patchReadToggle(msgs, id) ==
    [i \in DOMAIN msgs |->
        IF msgs[i]._id = id
        THEN [msgs[i] EXCEPT !.read = IF @ = "true" THEN "false" ELSE "true"]
        ELSE msgs[i]]

\* A patch that also empties the body of the message
patchReadClearingContent(msgs, id) ==
    [i \in DOMAIN msgs |->
        IF msgs[i]._id = id THEN [msgs[i] EXCEPT !.read = "true", !.content = <<>>] ELSE msgs[i]]

\* ctx.db.patch(id, { read: true }) on table unifiedMessages
patchRead(msgs, id) == [i \in DOMAIN msgs |-> IF msgs[i]._id = id THEN [msgs[i] EXCEPT !.read = "true"] ELSE msgs[i]]

markRead(db, messageId) ==
    Returned([db EXCEPT !.unifiedMessages = patchRead(@, messageId)], [success |-> TRUE])

\* The unread index scan without its condition on the read flag
byToAgentAnyRead(db, agentNameLower) ==
    SelectSeq(db.unifiedMessages, LAMBDA m : m.toAgent = agentNameLower)

\* .withIndex("by_to_agent_unread", q => q.eq("toAgent", a).eq("read", false))
byToAgentUnread(db, agentNameLower) ==
    SelectSeq(db.unifiedMessages, LAMBDA m : m.toAgent = agentNameLower /\ m.read = "false")

\* An index scan that also yields what the agent has sent
byToAgentOrFrom(db, agentNameLower) ==
    SelectSeq(db.unifiedMessages,
              LAMBDA m : m.toAgent = agentNameLower \/ m.fromAgent = agentNameLower)

\* .withIndex("by_to_agent", q => q.eq("toAgent", a))
byToAgent(db, agentNameLower) ==
    SelectSeq(db.unifiedMessages, LAMBDA m : m.toAgent = agentNameLower)

\* markAllRead sweeping whatever is unread, for any agent
markAllReadWholeTable(db, agentName) ==
    LET toMark == SelectSeq(db.unifiedMessages, LAMBDA m : m.read # "true")
    IN Returned(
         [db EXCEPT !.unifiedMessages = [i \in DOMAIN @ |-> [@[i] EXCEPT !.read = "true"]]],
         [marked |-> Len(toMark)])

\* markAllRead sweeping the DMs only
markAllReadOnlyDMs(db, agentName) ==
    LET toMark == byToAgentUnread(db, toLowerCase(agentName))
        ids == {toMark[i]._id : i \in DOMAIN toMark}
    IN Returned(
         [db EXCEPT !.unifiedMessages =
             [i \in DOMAIN @ |-> IF @[i]._id \in ids THEN [@[i] EXCEPT !.read = "true"] ELSE @[i]]],
         [marked |-> Len(toMark)])

markAllRead(db, agentName) ==
    LET agentNameLower == toLowerCase(agentName)
        unreadDMs == byToAgentUnread(db, agentNameLower)
        unreadMentions ==
            SelectSeq(db.unifiedMessages,
                   LAMBDA m : /\ m.type = "comment"
                              /\ m.read # "true"
                              /\ includes(m.mentions, agentNameLower))
        toMark == unreadDMs \o unreadMentions
        ids == {toMark[i]._id : i \in DOMAIN toMark}
    IN Returned(
         [db EXCEPT !.unifiedMessages =
             [i \in DOMAIN @ |-> IF @[i]._id \in ids THEN [@[i] EXCEPT !.read = "true"] ELSE @[i]]],
         [marked |-> Len(toMark)])

----------------------------------------------------------------------------
(* Unified messaging: queries *)

enrich(m) == [message |-> m, fromAgentName |-> displayName(m.fromAgent)]

enrichAll(seq) == [k \in DOMAIN seq |-> enrich(seq[k])]

\* .withIndex("by_task", q => q.eq("taskId", taskId)): in insertion order
byTask(db, taskId) == SelectSeq(db.unifiedMessages, LAMBDA m : m.taskId = taskId)

getTaskComments(db, taskId) ==
    LET comments == SelectSeq(byTask(db, taskId), LAMBDA m : m.type = "comment")
        filtered == sortStable(comments, createdAtOf(comments), FALSE)
    IN [k \in DOMAIN filtered |->
           [message |-> filtered[k], agentName |-> displayName(filtered[k].fromAgent)]]

\* .withIndex("by_linearId", q => q.eq("linearIdentifier", id)): in insertion order
byLinearId(db, linearIdentifier) ==
    SelectSeq(db.unifiedMessages, LAMBDA m : m.linearIdentifier = linearIdentifier)

getCommentsByLinearId(db, linearIdentifier) ==
    LET comments == SelectSeq(byLinearId(db, linearIdentifier), LAMBDA m : m.type = "comment")
        filtered == sortStable(comments, createdAtOf(comments), FALSE)
    IN [k \in DOMAIN filtered |->
           [message |-> filtered[k], agentName |-> displayName(filtered[k].fromAgent)]]

getDMs(db, agentName, unreadOnly) ==
    LET agentNameLower == toLowerCase(agentName)
        messages == IF unreadOnly
                    THEN orderDesc(byToAgentUnread(db, agentNameLower))
                    ELSE orderDesc(byToAgent(db, agentNameLower))
        dms == SelectSeq(messages, LAMBDA m : m.type = "dm")
    IN enrichAll(dms)

unreadMentionsOf(db, agentNameLower) ==
    SelectSeq(db.unifiedMessages,
           LAMBDA m : /\ m.type = "comment"
                      /\ m.read # "true"
                      /\ includes(m.mentions, agentNameLower)
                      /\ m.fromAgent # agentNameLower)

getUnreadCount(db, agentName) ==
    LET agentNameLower == toLowerCase(agentName)
        unreadDMs == byToAgentUnread(db, agentNameLower)
        unreadMentions == unreadMentionsOf(db, agentNameLower)
    IN [dms |-> Len(unreadDMs),
        mentions |-> Len(unreadMentions),
        total |-> Len(unreadDMs) + Len(unreadMentions)]

UnreadCap == 10

\* getUnread cutting each list to the oldest entries instead of the newest
getUnreadKeepingOldest(db, agentName) ==
    LET agentNameLower == toLowerCase(agentName)
        unreadDMs == SelectSeq(orderDesc(slice0(byToAgentUnread(db, agentNameLower), UnreadCap)),
                            LAMBDA m : m.type = "dm")
        unreadMentions ==
            orderDesc(slice0(sortStable(unreadMentionsOf(db, agentNameLower),
                                        createdAtOf(unreadMentionsOf(db, agentNameLower)), FALSE),
                             UnreadCap))
    IN [dms |-> enrichAll(unreadDMs),
        mentions |-> enrichAll(unreadMentions),
        count |-> [dms |-> Len(unreadDMs),
                   mentions |-> Len(unreadMentions),
                   total |-> Len(unreadDMs) + Len(unreadMentions)]]

getUnread(db, agentName) ==
    LET agentNameLower == toLowerCase(agentName)
        unreadDMs == SelectSeq(slice0(orderDesc(byToAgentUnread(db, agentNameLower)), UnreadCap),
                            LAMBDA m : m.type = "dm")
        unreadMentions ==
            slice0(sortStable(unreadMentionsOf(db, agentNameLower),
                              createdAtOf(unreadMentionsOf(db, agentNameLower)), TRUE),
                   UnreadCap)
    IN [dms |-> enrichAll(unreadDMs),
        mentions |-> enrichAll(unreadMentions),
        count |-> [dms |-> Len(unreadDMs),
                   mentions |-> Len(unreadMentions),
                   total |-> Len(unreadDMs) + Len(unreadMentions)]]

\* Array.prototype.slice(start) for an integer start of either sign
sliceFrom(seq, start) ==
    LET n == Len(seq)
        first == IF start < 0 THEN (IF n + start < 0 THEN 0 ELSE n + start)
                 ELSE Min2(start, n)
    IN SubSeq(seq, first + 1, n)

\* limit: v.optional(v.number()): NoLimit when the argument is omitted, <<k>>
\* when it is given as k
NoLimit == <<>>

\* args.limit ? ... : ...: an omitted limit and a limit of 0 are both falsy
limitGiven(limit) == limit # NoLimit /\ limit[1] # 0

getConversation(db, agent1, agent2, limit) ==
    LET a1 == toLowerCase(agent1)
        a2 == toLowerCase(agent2)
        between ==
            SelectSeq(db.unifiedMessages,
                      LAMBDA m : /\ m.type = "dm"
                                 /\ \/ (m.fromAgent = a1 /\ m.toAgent = a2)
                                    \/ (m.fromAgent = a2 /\ m.toAgent = a1))
        conversation == sortStable(between, createdAtOf(between), FALSE)
        limited == IF limitGiven(limit) THEN sliceFrom(conversation, 0 - limit[1]) ELSE conversation
    IN enrichAll(limited)

RecentDefault == 20

\* args.limit ?? 20, then the table in descending order, .take(limit)
listRecent(db, limit) ==
    LET n == IF limit = NoLimit THEN RecentDefault ELSE limit[1]
    IN enrichAll(slice0(orderDesc(db.unifiedMessages), n))

----------------------------------------------------------------------------
(* Legacy direct messaging (module agentMessaging, table agentMessages) *)

\* sendDirectMessage writing the DM into the unified table as well
sendDirectMessageDualWrite(db, t, fromAgent, toAgent, content, relatedTaskId, priorityArg) ==
    LET fromAgentDoc == findAgent(toLowerCase(fromAgent))
        toAgentDoc == findAgent(toLowerCase(toAgent))
        priority == IF priorityArg = "undefined" THEN "normal" ELSE priorityArg
        messageId == Len(db.agentMessages) + 1
        linearId == IF relatedTaskId # NoId
                    THEN getTask(relatedTaskId).linearIdentifier
                    ELSE Undef
    IN IF fromAgentDoc = NoAgent THEN Thrown(db, "Sender agent not found")
       ELSE IF toAgentDoc = NoAgent THEN Thrown(db, "Recipient agent not found")
       ELSE Returned(
              [db EXCEPT
                 !.agentMessages =
                     Append(@, [_id |-> messageId, from |-> fromAgentDoc._id,
                                to |-> toAgentDoc._id, type |-> "fyi", content |-> content,
                                taskRef |-> relatedTaskId, status |-> "unread",
                                timestamp |-> t]),
                 !.unifiedMessages =
                     Append(@, [_id |-> Len(@) + 1, fromAgent |-> toLowerCase(fromAgent),
                                toAgent |-> toLowerCase(toAgent), taskId |-> relatedTaskId,
                                linearIdentifier |-> linearId, content |-> content,
                                type |-> "dm", mentions |-> <<>>, priority |-> priority,
                                read |-> "false", createdAt |-> t]),
                 !.notifications =
                     Append(@, dmNotification(db, t, fromAgentDoc, toAgentDoc, content,
                                              relatedTaskId, priority, linearId))],
              [messageId |-> messageId, from |-> fromAgent, to |-> toAgent,
               priority |-> priority])

sendDirectMessage(db, t, fromAgent, toAgent, content, relatedTaskId, priorityArg) ==
    LET fromAgentDoc == findAgent(toLowerCase(fromAgent))
        toAgentDoc == findAgent(toLowerCase(toAgent))
        priority == IF priorityArg = "undefined" THEN "normal" ELSE priorityArg
        messageId == Len(db.agentMessages) + 1
        message == [_id |-> messageId,
                    from |-> fromAgentDoc._id,
                    to |-> toAgentDoc._id,
                    type |-> "fyi",
                    content |-> content,
                    taskRef |-> relatedTaskId,
                    status |-> "unread",
                    timestamp |-> t]
        linearId == IF relatedTaskId # NoId
                    THEN getTask(relatedTaskId).linearIdentifier
                    ELSE Undef
        event == [agentId |-> fromAgentDoc._id,
                  agentName |-> toLowerCase(fromAgent),
                  eventType |-> "dm_sent",
                  taskId |-> relatedTaskId,
                  linearIdentifier |-> IF Truthy(linearId) THEN linearId ELSE Undef,
                  source |-> "agent_dm",
                  timestamp |-> t]
    IN IF fromAgentDoc = NoAgent THEN Thrown(db, "Sender agent not found")
       ELSE IF toAgentDoc = NoAgent THEN Thrown(db, "Recipient agent not found")
       ELSE Returned(
              [db EXCEPT
                 !.agentMessages = Append(@, message),
                 !.notifications =
                     Append(@, dmNotification(db, t, fromAgentDoc, toAgentDoc, content,
                                              relatedTaskId, priority, linearId)),
                 !.activityEvents = Append(@, event)],
              [messageId |-> messageId, from |-> fromAgent, to |-> toAgent,
               priority |-> priority])

\* .withIndex("by_to_status", q => q.eq("to", id).eq("status", "unread"))
byToStatusUnread(db, agentId) ==
    SelectSeq(db.agentMessages, LAMBDA m : m.to = agentId /\ m.status = "unread")

legacyEnrich(m) ==
    [message |-> m,
     fromAgentName |-> IF Truthy(getAgent(m.from).name) THEN getAgent(m.from).name
                       ELSE <<"Unknown">>]

getDirectMessages(db, agentName, unreadOnly) ==
    LET agent == findAgent(toLowerCase(agentName))
        received == SelectSeq(db.agentMessages, LAMBDA m : m.to = agent._id)
        messages ==
            IF unreadOnly
            THEN orderDesc(byToStatusUnread(db, agent._id))
            ELSE sortStable(received, timestampOf(received), TRUE)
    IN IF agent = NoAgent THEN <<>>
       ELSE [k \in DOMAIN messages |-> legacyEnrich(messages[k])]

\* A markAsRead that patches the document of that id in both message tables
agentMessaging_markAsReadBothTables(db, messageId) ==
    Returned(
      [db EXCEPT
         !.agentMessages =
             [i \in DOMAIN @ |-> IF @[i]._id = messageId THEN [@[i] EXCEPT !.status = "read"] ELSE @[i]],
         !.unifiedMessages = patchRead(@, messageId)],
      [success |-> TRUE])

agentMessaging_markAsRead(db, messageId) ==
    Returned(
      [db EXCEPT !.agentMessages =
          [i \in DOMAIN @ |-> IF @[i]._id = messageId THEN [@[i] EXCEPT !.status = "read"] ELSE @[i]]],
      [success |-> TRUE])

agentMessaging_markAllAsRead(db, agentName) ==
    LET agent == findAgent(toLowerCase(agentName))
        unread == byToStatusUnread(db, agent._id)
        ids == {unread[i]._id : i \in DOMAIN unread}
    IN IF agent = NoAgent THEN Thrown(db, "Agent not found")
       ELSE Returned(
              [db EXCEPT !.agentMessages =
                  [i \in DOMAIN @ |-> IF @[i]._id \in ids THEN [@[i] EXCEPT !.status = "read"] ELSE @[i]]],
              [marked |-> Len(unread)])

agentMessaging_getConversation(db, agent1, agent2, limit) ==
    LET a1 == findAgent(toLowerCase(agent1))
        a2 == findAgent(toLowerCase(agent2))
        between ==
            SelectSeq(db.agentMessages,
                      LAMBDA m : \/ (m.from = a1._id /\ m.to = a2._id)
                                 \/ (m.from = a2._id /\ m.to = a1._id))
        conversation == sortStable(between, timestampOf(between), FALSE)
        limited == IF limitGiven(limit) THEN sliceFrom(conversation, 0 - limit[1]) ELSE conversation
    IN IF a1 = NoAgent \/ a2 = NoAgent THEN <<>>
       ELSE [k \in DOMAIN limited |-> legacyEnrich(limited[k])]

----------------------------------------------------------------------------
(* Module notifications: read state of notification records *)

\* .withIndex("by_read_status", q => q.eq("to", agent).eq("read", false))
byReadStatusUnread(db, agentId) ==
    SelectSeq(db.notifications, LAMBDA n : n.to = agentId /\ n.read = FALSE)

notifications_markAsRead(db, id) ==
    Returned(
      [db EXCEPT !.notifications =
          [i \in DOMAIN @ |-> IF @[i]._id = id THEN [@[i] EXCEPT !.read = TRUE] ELSE @[i]]],
      [success |-> TRUE])

notifications_markAllAsRead(db, agentId) ==
    LET unread == byReadStatusUnread(db, agentId)
        ids == {unread[i]._id : i \in DOMAIN unread}
    IN Returned(
         [db EXCEPT !.notifications =
             [i \in DOMAIN @ |-> IF @[i]._id \in ids THEN [@[i] EXCEPT !.read = TRUE] ELSE @[i]]],
         [marked |-> Len(unread)])

----------------------------------------------------------------------------
(* Inputs *)

Max == <<"M","a","x">>
sam == <<"s","a","m">>
LEO == <<"L","E","O">>
son == <<"s","o","n">>
bob == <<"b","o","b">>        \* a name no agent document carries

BodyPlain == <<"o","k">>
BodyTwo == <<"@","L","e","o","@","l","e","o","@","S","a","m">>
BodyAll == <<"@","m","a","x","@","a","l","l">>
BodySelf == <<"@","M","a","x">>

\* Date.now() does not go back, and may return the same value twice
Times == {t \in now..(now + 1) : t <= MaxTime}

NoCall == [op |-> "none"]
NoTwin == [ok |-> "none"]

\* The ids a caller can hold of documents in a table
Ids(table) == {table[i]._id : i \in DOMAIN table}

----------------------------------------------------------------------------
(* Actions: one per mutation.  Each takes the lists its arguments range over. *)

Among(list) == {list[i] : i \in DOMAIN list}

\* Messages in the store, over both tables
Stored == Len(unifiedMessages) + Len(agentMessages)

Commit(r, t, call) ==
    /\ unifiedMessages' = r.db.unifiedMessages
    /\ agentMessages' = r.db.agentMessages
    /\ notifications' = r.db.notifications
    /\ activityEvents' = r.db.activityEvents
    /\ now' = t
    /\ last' = [op |-> call.op, args |-> call.args, ok |-> r.ok, ret |-> r.ret]
    /\ agents' = agents

PostComment(TaskIds, Senders, Bodies) ==
    /\ Stored < MaxMsgs
    /\ \E taskId \in Among(TaskIds), agentName \in Among(Senders), content \in Among(Bodies), t \in Times :
         LET r == postComment(DB, t, taskId, agentName, content)
         IN Commit(r, IF r.ok THEN t ELSE now,
                   [op |-> "postComment",
                    args |-> [taskId |-> taskId, agentName |-> agentName, content |-> content]])
    /\ twin' = NoTwin

SendDM(Senders, Recipients, Bodies, TaskIds, Prios) ==
    /\ Stored < MaxMsgs
    /\ \E from \in Among(Senders), to \in Among(Recipients), content \in Among(Bodies),
          relatedTaskId \in Among(TaskIds), priority \in Among(Prios), t \in Times :
         Commit(sendDM(DB, t, from, to, content, relatedTaskId, priority), t,
                [op |-> "sendDM",
                 args |-> [from |-> from, to |-> to, content |-> content,
                           relatedTaskId |-> relatedTaskId, priority |-> priority]])
    /\ twin' = NoTwin

\* markRead takes no agent: onBehalfOf is the caller, which the handler never sees
MarkRead(Callers) ==
    /\ \E messageId \in Ids(unifiedMessages), onBehalfOf \in Among(Callers) :
         Commit(markRead(DB, messageId), now,
                [op |-> "markRead",
                 args |-> [messageId |-> messageId, onBehalfOf |-> onBehalfOf]])
    /\ twin' = NoTwin

MarkAllRead(Agents) ==
    /\ \E agentName \in Among(Agents) :
         Commit(markAllRead(DB, agentName), now,
                [op |-> "markAllRead", args |-> [agentName |-> agentName]])
    /\ twin' = NoTwin

SendDirectMessage(Senders, Recipients, Bodies, TaskIds, Prios) ==
    /\ Stored < MaxMsgs
    /\ \E fromAgent \in Among(Senders), toAgent \in Among(Recipients), content \in Among(Bodies),
          relatedTaskId \in Among(TaskIds), priority \in Among(Prios), t \in Times :
         LET r == sendDirectMessage(DB, t, fromAgent, toAgent, content, relatedTaskId, priority)
         IN Commit(r, IF r.ok THEN t ELSE now,
                   [op |-> "sendDirectMessage",
                    args |-> [from |-> fromAgent, to |-> toAgent, content |-> content,
                              relatedTaskId |-> relatedTaskId, priority |-> priority]])
    /\ twin' = NoTwin

AgentMessagingMarkAsRead ==
    /\ \E messageId \in Ids(agentMessages) :
         Commit(agentMessaging_markAsRead(DB, messageId), now,
                [op |-> "agentMessaging.markAsRead", args |-> [messageId |-> messageId]])
    /\ twin' = NoTwin

AgentMessagingMarkAllAsRead(Agents) ==
    /\ \E agentName \in Among(Agents) :
         Commit(agentMessaging_markAllAsRead(DB, agentName), now,
                [op |-> "agentMessaging.markAllAsRead", args |-> [agentName |-> agentName]])
    /\ twin' = NoTwin

NotificationsMarkAsRead ==
    /\ \E id \in Ids(notifications) :
         Commit(notifications_markAsRead(DB, id), now,
                [op |-> "notifications.markAsRead", args |-> [id |-> id]])
    /\ twin' = NoTwin

NotificationsMarkAllAsRead ==
    /\ \E agent \in Ids(agents) :
         Commit(notifications_markAllAsRead(DB, agent), now,
                [op |-> "notifications.markAllAsRead", args |-> [agent |-> agent]])
    /\ twin' = NoTwin

Init ==
    /\ unifiedMessages = <<>>
    /\ agentMessages = <<>>
    /\ notifications = <<>>
    /\ activityEvents = <<>>
    /\ now = 0
    /\ last = NoCall
    /\ twin = NoTwin
    /\ agents \in Rosters

----------------------------------------------------------------------------
(* Spec: every mutation of the three modules, on a small set of arguments *)

Next ==
    \/ PostComment(<<"task1", "task9">>, <<Max, sam>>, <<BodyTwo>>)
    \/ SendDM(<<Max, bob>>, <<Max, sam>>, <<BodyPlain>>, <<NoId>>, <<"undefined">>)
    \/ MarkRead(<<Max, sam>>)
    \/ MarkAllRead(<<Max, sam>>)
    \/ SendDirectMessage(<<Max, bob>>, <<Max, sam>>, <<BodyPlain>>, <<NoId>>, <<"undefined">>)
    \/ AgentMessagingMarkAsRead
    \/ AgentMessagingMarkAllAsRead(<<sam, bob>>)
    \/ NotificationsMarkAsRead
    \/ NotificationsMarkAllAsRead

Spec == Init /\ [][Next]_vars

----------------------------------------------------------------------------
(* The same call on both DM surfaces: the legacy handler, then the unified  *)
(* one, on the same arguments.  last holds the unified outcome, twin the    *)
(* legacy one.  The two handlers write different message tables.            *)

BothSendDM(Senders, Recipients, Bodies, TaskIds, Prios) ==
    /\ Len(unifiedMessages) < MaxMsgs
    /\ \E from \in Among(Senders), to \in Among(Recipients), content \in Among(Bodies),
          relatedTaskId \in Among(TaskIds), priority \in Among(Prios), t \in Times :
         LET legacy == sendDirectMessage(DB, t, from, to, content, relatedTaskId, priority)
         IN /\ Commit(sendDM(legacy.db, t, from, to, content, relatedTaskId, priority), t,
                      [op |-> "sendDM",
                       args |-> [from |-> from, to |-> to, content |-> content,
                                 relatedTaskId |-> relatedTaskId, priority |-> priority]])
            /\ twin' = [ok |-> legacy.ok, ret |-> legacy.ret]

BothMarkAllRead(Agents) ==
    \E agentName \in Among(Agents) :
       LET legacy == agentMessaging_markAllAsRead(DB, agentName)
       IN /\ Commit(markAllRead(legacy.db, agentName), now,
                    [op |-> "markAllRead", args |-> [agentName |-> agentName]])
          /\ twin' = [ok |-> legacy.ok, ret |-> legacy.ret]

----------------------------------------------------------------------------
(* SpecMentions: comments, their mention notifications and their read state *)

NextMentions ==
    \/ PostComment(<<"task1", "task9">>, <<sam, bob>>, <<BodyTwo, BodyAll>>)
    \/ MarkRead(<<sam, LEO>>)
    \/ MarkAllRead(<<sam, LEO>>)

SpecMentions == Init /\ [][NextMentions]_vars

(* SpecUnread: DMs and comments of the unified module and their read state *)

NextUnread ==
    \/ PostComment(<<"task1">>, <<Max, sam>>, <<BodyTwo>>)
    \/ SendDM(<<Max, sam>>, <<Max, sam>>, <<BodyPlain>>, <<NoId>>, <<"undefined">>)
    \/ MarkRead(<<sam>>)
    \/ MarkAllRead(<<Max, sam>>)

SpecUnread == Init /\ [][NextUnread]_vars

(* SpecLegacy: the legacy DM module beside the unified one *)

NextLegacy ==
    \/ SendDirectMessage(<<Max, bob>>, <<Max, sam>>, <<BodyPlain>>, <<NoId>>, <<"undefined">>)
    \/ SendDM(<<Max>>, <<sam>>, <<BodyPlain>>, <<NoId>>, <<"undefined">>)
    \/ AgentMessagingMarkAsRead
    \/ AgentMessagingMarkAllAsRead(<<sam, bob>>)

SpecLegacy == Init /\ [][NextLegacy]_vars

(* SpecBridge: every call made on both DM surfaces *)

NextBridge ==
    \/ BothSendDM(<<Max, sam, bob>>, <<Max, sam>>, <<BodyPlain>>, <<NoId>>, <<"undefined", "urgent">>)
    \/ BothMarkAllRead(<<Max, sam, bob>>)

SpecBridge == Init /\ [][NextBridge]_vars

(* SpecFanOut: the three handlers that write notifications, on names that all resolve *)

NextFanOut ==
    \/ PostComment(<<"task1">>, <<Max, sam>>, <<BodyTwo, BodySelf>>)
    \/ SendDM(<<Max, sam>>, <<Max, sam>>, <<BodyPlain>>, <<NoId>>, <<"undefined", "urgent">>)
    \/ SendDirectMessage(<<Max, sam>>, <<Max, sam>>, <<BodyPlain>>, <<NoId>>, <<"undefined", "urgent">>)

SpecFanOut == Init /\ [][NextFanOut]_vars

----------------------------------------------------------------------------
(* SpecParse: the mention parser alone, on every text of up to MaxTokens    *)
(* fragments.  The text is the input, drawn at the start; the one step      *)
(* applies parseMentions to it.                                             *)

MaxTokens == 3

Tokens ==
    { <<"@">>, <<"a">>, <<"l">>, <<"x">>,
      <<"@","a","l","l">>, <<"@","A","l","L">>,
      <<"@","M","a","x">>, <<"@","m","A","X">>, <<"@","S","a","m">> }

RECURSIVE Texts(_)
Texts(n) ==
    IF n = 0 THEN {<<>>}
    ELSE Texts(n - 1) \cup {t \o token : t \in Texts(n - 1), token \in Tokens}

InitParse ==
    /\ unifiedMessages = <<>>
    /\ agentMessages = <<>>
    /\ notifications = <<>>
    /\ activityEvents = <<>>
    /\ now = 0
    /\ last \in {[op |-> "text", args |-> [content |-> content]] : content \in Texts(MaxTokens)}
    /\ twin = NoTwin
    /\ agents \in Rosters

ParseMentions ==
    /\ last.op = "text"
    /\ last' = [op |-> "parseMentions", args |-> last.args, ok |-> TRUE,
                ret |-> parseMentions(last.args.content)]
    /\ UNCHANGED <<unifiedMessages, agentMessages, notifications, activityEvents, now, twin, agents>>

NextParse == ParseMentions

SpecParse == InitParse /\ [][NextParse]_vars

----------------------------------------------------------------------------
(* SpecDM: sendDM alone, on every priority and on ticket references that    *)
(* resolve, resolve to a ticket without identifier, or do not resolve       *)

NextDM == SendDM(<<Max, bob>>, <<sam>>, <<BodyPlain>>, <<"task1", "task2", "task9">>, <<"undefined", "urgent">>)

SpecDM == Init /\ [][NextDM]_vars

----------------------------------------------------------------------------
(* SpecSweep: messages arriving before and after the sweeps of markAllRead, *)
(* the only call that marks anything read here.  A mutation is one          *)
(* transaction: a request that arrives while a sweep runs is ordered        *)
(* entirely before it or entirely after it.                                 *)

NextSweep ==
    \/ PostComment(<<"task1">>, <<Max>>, <<BodyTwo>>)
    \/ SendDM(<<Max>>, <<Max, sam>>, <<BodyPlain>>, <<NoId>>, <<"undefined">>)
    \/ MarkAllRead(<<Max, sam>>)

SpecSweep == Init /\ [][NextSweep]_vars

----------------------------------------------------------------------------
(* Reading one document: each table has a handler that marks one document   *)
(* of it as read, reached here after a DM on either surface.                *)

NextMarks ==
    \/ SendDM(<<Max>>, <<sam>>, <<BodyPlain>>, <<NoId>>, <<"undefined">>)
    \/ SendDirectMessage(<<Max>>, <<sam>>, <<BodyPlain>>, <<NoId>>, <<"undefined">>)
    \/ MarkRead(<<sam>>)
    \/ AgentMessagingMarkAsRead
    \/ NotificationsMarkAsRead

SpecMarks == Init /\ [][NextMarks]_vars

----------------------------------------------------------------------------
(* SpecInbox: DMs of one agent to itself and to another on the unified      *)
(* surface, a legacy DM, a comment, and the handlers that mark one message  *)
(* read                                                                     *)

NextInbox ==
    \/ SendDM(<<Max>>, <<Max, sam>>, <<BodyPlain>>, <<NoId>>, <<"undefined">>)
    \/ SendDirectMessage(<<Max>>, <<sam>>, <<BodyPlain>>, <<NoId>>, <<"undefined">>)
    \/ PostComment(<<"task1">>, <<Max>>, <<BodyTwo>>)
    \/ MarkRead(<<sam>>)
    \/ AgentMessagingMarkAsRead

SpecInbox == Init /\ [][NextInbox]_vars

----------------------------------------------------------------------------
(* SpecTracks: every mutation of the unified module and of the legacy DM    *)
(* module, each on one choice of arguments                                  *)

NextTracks ==
    \/ PostComment(<<"task1">>, <<Max>>, <<BodyTwo>>)
    \/ SendDM(<<Max>>, <<sam>>, <<BodyPlain>>, <<NoId>>, <<"undefined">>)
    \/ MarkRead(<<sam>>)
    \/ MarkAllRead(<<sam>>)
    \/ SendDirectMessage(<<Max>>, <<sam>>, <<BodyPlain>>, <<NoId>>, <<"undefined">>)
    \/ AgentMessagingMarkAsRead
    \/ AgentMessagingMarkAllAsRead(<<sam>>)

SpecTracks == Init /\ [][NextTracks]_vars

----------------------------------------------------------------------------
(* SpecThread: comments on two tickets, from a sender of the directory and  *)
(* from one outside it, beside DMs that carry a ticket reference            *)

NextThread ==
    \/ PostComment(<<"task1", "task2">>, <<Max, bob>>, <<BodySelf>>)
    \/ SendDM(<<Max>>, <<sam>>, <<BodyPlain>>, <<NoId, "task1">>, <<"undefined">>)

SpecThread == Init /\ [][NextThread]_vars

----------------------------------------------------------------------------
(* SpecBody: DMs on both surfaces with bodies as long as each preview, one  *)
(* character longer, and 200 characters long, with and without a ticket     *)

Digits == <<"0","1","2","3","4","5","6","7","8","9">>

\* A body of n characters, no two neighbours alike
Body(n) == [i \in 1..n |-> Digits[(i % 10) + 1]]

\* The 200 characters of the scenario of a long DM
LongBody == PreviewPlain + 50

NextBody ==
    \/ SendDM(<<Max>>, <<sam>>,
              <<Body(PreviewWithTicket), Body(PreviewWithTicket + 1),
                Body(PreviewPlain), Body(PreviewPlain + 1), Body(LongBody)>>,
              <<NoId, "task1">>, <<"undefined">>)
    \/ SendDirectMessage(<<Max>>, <<sam>>,
                         <<Body(PreviewWithTicket + 1), Body(PreviewPlain + 1)>>,
                         <<NoId, "task1">>, <<"undefined">>)

SpecBody == Init /\ [][NextBody]_vars

----------------------------------------------------------------------------
(* SpecLegacySend: sendDirectMessage from and to names inside and outside   *)
(* the directory, with and without a ticket and an urgent priority          *)

NextLegacySend ==
    \/ SendDirectMessage(<<Max, bob>>, <<sam, bob>>, <<BodyPlain>>, <<NoId, "task1">>,
                         <<"undefined", "urgent">>)
    \/ AgentMessagingMarkAsRead

SpecLegacySend == Init /\ [][NextLegacySend]_vars

----------------------------------------------------------------------------
(* SpecBacklog: an inbox that outgrows the cap of getUnread.  sam receives  *)
(* DMs until one more than the cap is stored, after at most MaxMsgs         *)
(* comments that mention sam, and sweeps the inbox with markAllRead.        *)

MaxBacklog == UnreadCap + 1

\* sendDM, called while the store holds fewer than Cap messages
SendDMUpTo(Cap, Senders, Recipients, Bodies, TaskIds, Prios) ==
    /\ Stored < Cap
    /\ \E from \in Among(Senders), to \in Among(Recipients), content \in Among(Bodies),
          relatedTaskId \in Among(TaskIds), priority \in Among(Prios), t \in Times :
         Commit(sendDM(DB, t, from, to, content, relatedTaskId, priority), t,
                [op |-> "sendDM",
                 args |-> [from |-> from, to |-> to, content |-> content,
                           relatedTaskId |-> relatedTaskId, priority |-> priority]])
    /\ twin' = NoTwin

NextBacklog ==
    \/ SendDMUpTo(MaxBacklog, <<Max>>, <<sam>>, <<BodyPlain>>, <<NoId>>, <<"undefined">>)
    \/ PostComment(<<"task1">>, <<Max>>, <<BodyTwo>>)
    \/ MarkAllRead(<<sam>>)

SpecBacklog == Init /\ [][NextBacklog]_vars

----------------------------------------------------------------------------
(* Vocabulary of the properties *)

\* The agent names a call can carry, lower-cased
Names == {toLowerCase(Max), toLowerCase(sam), toLowerCase(LEO), toLowerCase(son), toLowerCase(bob)}

IsReadCall(call) == call.op \in {"markRead", "markAllRead"}

\* The agent a read call is made for
ReaderOf(call) ==
    IF call.op = "markAllRead" THEN toLowerCase(call.args.agentName)
    ELSE toLowerCase(call.args.onBehalfOf)

\* The ids of the comments getUnread lists as unread mentions of an agent
UnreadMentionIds(db, agentName) ==
    LET listed == getUnread(db, agentName).mentions
    IN {listed[k].message._id : k \in DOMAIN listed}

\* The notifications a step has inserted
Inserted == SubSeq(notifications', Len(notifications) + 1, Len(notifications'))

\* The lower-cased name of the agent a notification is addressed to
Addressee(n) == toLowerCase(getAgent(n.to).name)

Resolves(nameLower) == findAgent(nameLower) # NoAgent

----------------------------------------------------------------------------
(* C1 *)

\* C1: read state of a mention is per (comment, mentioned agent).  A comment
\* mentions two distinct agents X and Y, neither its sender, and is listed as
\* an unread mention of Y.  When markAllRead(X) runs, or markRead is applied
\* to that comment on X's behalf, the comment is still listed by getUnread(Y)
\* and still counted by getUnreadCount(Y).
C1_ReadStateIsPerAgent ==
    [][IsReadCall(last') =>
         \A i \in DOMAIN unifiedMessages : \A Y \in Names :
            LET m == unifiedMessages[i]
                X == ReaderOf(last')
            IN (/\ m.type = "comment"
                /\ X # Y
                /\ includes(m.mentions, X) /\ includes(m.mentions, Y)
                /\ m.fromAgent # X /\ m.fromAgent # Y
                /\ m._id \in UnreadMentionIds(DB, Y)
                /\ last'.op = "markRead" => last'.args.messageId = m._id)
               => /\ m._id \in UnreadMentionIds(DB', Y)
                  /\ getUnreadCount(DB', Y).mentions >= 1]_vars

----------------------------------------------------------------------------
(* C2 *)

\* The notifications a postComment step has inserted are exactly: one unread
\* mention notification for each name of Targets, and nothing else.
FanOutIs(Targets) ==
    /\ \A n \in Targets :
          Len(SelectSeq(Inserted, LAMBDA x : Addressee(x) = n /\ x.type = "mention" /\ ~x.read)) = 1
    /\ Len(Inserted) = Cardinality(Targets)

PostCommentSucceeds == last'.op = "postComment" /\ last'.ok /\ unifiedMessages' # unifiedMessages

MentionSet(call) == {call.ret.mentions[k] : k \in DOMAIN call.ret.mentions}

\* C2 as stated: every successful postComment by sender S creates exactly one
\* unread mention notification for each distinct agent of the resolved
\* mention set other than S, and none for S.
C2_OneNotificationPerMentioned ==
    [][PostCommentSucceeds =>
         FanOutIs(MentionSet(last') \ {toLowerCase(last'.args.agentName)})]_vars

\* C2 amended: a successful postComment whose sender S resolves in the agent
\* directory creates exactly one unread mention notification for each distinct
\* name of the mention set, other than S, that resolves in the directory, and
\* no other notification; a postComment whose sender does not resolve creates
\* no notification.
C2_OneNotificationPerResolvedMention ==
    [][PostCommentSucceeds =>
         LET S == toLowerCase(last'.args.agentName)
         IN FanOutIs(IF Resolves(S)
                     THEN {n \in MentionSet(last') \ {S} : Resolves(n)}
                     ELSE {})]_vars

\* Witness of C2: sam has posted the wildcard body, and every agent of the
\* directory but sam holds a notification from sam; and a body with a
\* repeated marker was posted.
C2_Witness ==
    /\ last.op = "postComment" /\ last.ok
    /\ last.args.content = BodyAll
    /\ last.args.agentName = sam
    /\ Len(SelectSeq(notifications, LAMBDA x : x.from = "agent2")) = Len(agents) - 1
    /\ \E i \in DOMAIN unifiedMessages : unifiedMessages[i].content = BodyTwo

----------------------------------------------------------------------------
(* C3 *)

\* C3: markAllRead(agent) followed immediately by getUnreadCount(agent)
\* returns dms = 0, mentions = 0 and total = 0.
C3_NothingUnreadAfterMarkAllRead ==
    last.op = "markAllRead" =>
        getUnreadCount(DB, last.args.agentName) = [dms |-> 0, mentions |-> 0, total |-> 0]

\* Witness of C3: markAllRead has just flipped a DM and a mention of the agent.
C3_Witness ==
    /\ last.op = "markAllRead"
    /\ last.ret.marked >= 2
    /\ \E i, j \in DOMAIN unifiedMessages :
          /\ unifiedMessages[i].type = "dm"
          /\ unifiedMessages[i].toAgent = toLowerCase(last.args.agentName)
          /\ unifiedMessages[j].type = "comment"
          /\ includes(unifiedMessages[j].mentions, toLowerCase(last.args.agentName))
          /\ unifiedMessages[i].read = "true" /\ unifiedMessages[j].read = "true"

----------------------------------------------------------------------------
(* C4 *)

\* C4: sendDM fails with NotFound when the sender name or the recipient name
\* does not resolve to a known agent, and then writes nothing: no unified
\* message, no notification and no activity-log entry is added.
C4_SendDMUnknownAgentFailsWritingNothing ==
    [][(/\ last'.op = "sendDM"
        /\ \/ ~Resolves(toLowerCase(last'.args.from))
           \/ ~Resolves(toLowerCase(last'.args.to)))
       => /\ ~last'.ok
          /\ unifiedMessages' = unifiedMessages
          /\ notifications' = notifications
          /\ activityEvents' = activityEvents]_vars

----------------------------------------------------------------------------
(* C5 *)

\* What a client sees of a list of DMs: who sent each and what it says
Shown(results) ==
    [k \in DOMAIN results |->
        [fromAgentName |-> results[k].fromAgentName, content |-> results[k].message.content]]

\* a is b with some entries left out
RECURSIVE IsSubSeq(_, _)
IsSubSeq(a, b) ==
    IF a = <<>> THEN TRUE
    ELSE IF b = <<>> THEN FALSE
    ELSE IF Head(a) = Head(b) THEN IsSubSeq(Tail(a), Tail(b))
    ELSE IsSubSeq(a, Tail(b))

\* The names a query can be made with
Callers == {Max, sam, LEO, bob}

\* C5 as stated: any DM created through sendDirectMessage is returned by the
\* unified queries (getDMs for the recipient, getConversation for the pair)
\* with the same content and in the same relative order as the legacy queries
\* return it.
C5_LegacyDMsShownByUnifiedQueries ==
    \A a \in Callers :
       /\ IsSubSeq(Shown(getDirectMessages(DB, a, FALSE)), Shown(getDMs(DB, a, FALSE)))
       /\ \A b \in Callers :
             IsSubSeq(Shown(agentMessaging_getConversation(DB, a, b, NoLimit)),
                      Shown(getConversation(DB, a, b, NoLimit)))

SendDirectMessageSucceeds ==
    last'.op = "sendDirectMessage" /\ last'.ok /\ agentMessages' # agentMessages

\* C5 amended: a DM created through sendDirectMessage is afterwards returned
\* by the legacy queries, by getDirectMessages for its recipient and last in
\* the legacy getConversation of the pair, with the content it was sent with;
\* the call leaves the unified table as it was, so getDMs and the unified
\* getConversation return what they returned before it and never the legacy DM.
C5_LegacyDMsShownByLegacyQueriesOnly ==
    [][SendDirectMessageSucceeds =>
         LET from == last'.args.from
             to == last'.args.to
             id == last'.ret.messageId
             inbox == getDirectMessages(DB', to, FALSE)
             chat == agentMessaging_getConversation(DB', from, to, NoLimit)
         IN /\ \E k \in DOMAIN inbox :
                  /\ inbox[k].message._id = id
                  /\ inbox[k].message.content = last'.args.content
            /\ chat # <<>>
            /\ chat[Len(chat)].message._id = id
            /\ chat[Len(chat)].message.content = last'.args.content
            /\ unifiedMessages' = unifiedMessages
            /\ \A a \in Callers :
                  /\ \A u \in BOOLEAN : getDMs(DB', a, u) = getDMs(DB, a, u)
                  /\ \A b \in Callers :
                        getConversation(DB', a, b, NoLimit) = getConversation(DB, a, b, NoLimit)]_vars

\* Witness of C5: a legacy DM to sam was just sent while the unified table
\* holds a DM to sam; the legacy inbox lists the one, getDMs only the other.
C5_Witness ==
    /\ last.op = "sendDirectMessage" /\ last.ok
    /\ last.args.to = sam
    /\ Len(getDirectMessages(DB, sam, FALSE)) = 1
    /\ Len(getDMs(DB, sam, FALSE)) = 1
    /\ getDMs(DB, sam, FALSE)[1].message \in {unifiedMessages[i] : i \in DOMAIN unifiedMessages}

----------------------------------------------------------------------------
(* C6 *)

\* C6: the legacy DM surface and the unified DM surface are observably
\* equivalent: after the same calls with the same arguments on each, from an
\* empty store, each call has the same outcome (success or error) and returns
\* the same sender, recipient, priority and count, and the queries return the
\* same message sequence.
C6_SurfacesEquivalent ==
    last.op # "none" =>
       /\ twin.ok = last.ok
       /\ (last.ok /\ twin.ok /\ last.op = "sendDM") =>
             /\ twin.ret.from = last.ret.from
             /\ twin.ret.to = last.ret.to
             /\ twin.ret.priority = last.ret.priority
       /\ (last.ok /\ twin.ok /\ last.op = "markAllRead") =>
             twin.ret.marked = last.ret.marked
       /\ \A a \in Callers :
             /\ \A u \in BOOLEAN :
                   Shown(getDirectMessages(DB, a, u)) = Shown(getDMs(DB, a, u))
             /\ \A b \in Callers :
                   Shown(agentMessaging_getConversation(DB, a, b, NoLimit))
                      = Shown(getConversation(DB, a, b, NoLimit))

----------------------------------------------------------------------------
(* C7 *)

\* C7: no notification is addressed to the agent who sent the originating
\* message, also when a DM is sent with sender equal to recipient; and each
\* successful DM has exactly one notification of kind dm, addressed to its
\* recipient: per recipient name, as many dm notifications as DMs.
C7_NoSelfNotificationOnePerDM ==
    /\ \A k \in DOMAIN notifications : notifications[k].to # notifications[k].from
    /\ \A r \in Names :
          Len(SelectSeq(notifications, LAMBDA n : n.type = "dm" /\ Addressee(n) = r))
             = Len(SelectSeq(unifiedMessages, LAMBDA m : m.type = "dm" /\ m.toAgent = r))
               + Len(SelectSeq(agentMessages, LAMBDA m : toLowerCase(getAgent(m.to).name) = r))

----------------------------------------------------------------------------
(* C8 *)

\* C8: markAllRead(agent) flips to read every DM addressed to the agent and
\* every mention notification addressed to the agent: right after the call no
\* notification of kind mention with recipient = agent has read = false.
C8_MarkAllReadFlipsMentionNotifications ==
    last.op = "markAllRead" =>
       LET agent == toLowerCase(last.args.agentName)
       IN /\ \A i \in DOMAIN unifiedMessages :
                (unifiedMessages[i].type = "dm" /\ unifiedMessages[i].toAgent = agent)
                   => unifiedMessages[i].read = "true"
          /\ \A k \in DOMAIN notifications :
                (notifications[k].type = "mention" /\ Addressee(notifications[k]) = agent)
                   => notifications[k].read

----------------------------------------------------------------------------
(* C9 *)

\* C9: getUnreadCount(agent).dms equals the number of unified messages of
\* kind dm whose recipient is the lower-cased agent name and whose read flag
\* is false.
C9_UnreadDMCount ==
    \A a \in Callers :
       getUnreadCount(DB, a).dms
          = Cardinality({i \in DOMAIN unifiedMessages :
                            /\ unifiedMessages[i].type = "dm"
                            /\ unifiedMessages[i].toAgent = toLowerCase(a)
                            /\ unifiedMessages[i].read = "false"})

\* Witness of C9: sam has one unread DM, counted, beside a DM that is not:
\* one sam has read, or one sam sent to another agent.
C9_Witness ==
    /\ getUnreadCount(DB, sam).dms = 1
    /\ \E i \in DOMAIN unifiedMessages :
          LET m == unifiedMessages[i]
          IN /\ m.type = "dm"
             /\ \/ m.toAgent = toLowerCase(sam) /\ m.read = "true"
                \/ m.fromAgent = toLowerCase(sam) /\ m.toAgent # toLowerCase(sam) /\ m.read = "false"

----------------------------------------------------------------------------
(* C10 *)

\* C10: getUnreadCount(agent).mentions is the number of comments that mention
\* the agent, are not yet read for that agent and were not sent by the agent.
\* A comment stops being unread for an agent only by a read made for that
\* agent, so no other call lowers the count.
C10_MentionCountIsPerAgent ==
    [][\A Y \in Names :
          getUnreadCount(DB', Y).mentions < getUnreadCount(DB, Y).mentions
             => IsReadCall(last') /\ ReaderOf(last') = Y]_vars

----------------------------------------------------------------------------
(* C11 *)

\* The limits a caller passes
Limits == 0..(MaxMsgs + 1)

\* Identity and age of each message of a query result, unified and legacy
unifiedStamps(results) ==
    [k \in DOMAIN results |->
        [id |-> results[k].message._id, at |-> results[k].message.createdAt]]

legacyStamps(results) ==
    [k \in DOMAIN results |->
        [id |-> results[k].message._id, at |-> results[k].message.timestamp]]

\* The DMs exchanged between a and b, in either direction, in each table
unifiedExchanged(a, b) ==
    {[id |-> unifiedMessages[i]._id, at |-> unifiedMessages[i].createdAt] :
        i \in {j \in DOMAIN unifiedMessages :
                 LET m == unifiedMessages[j]
                 IN /\ m.type = "dm"
                    /\ \/ m.fromAgent = toLowerCase(a) /\ m.toAgent = toLowerCase(b)
                       \/ m.fromAgent = toLowerCase(b) /\ m.toAgent = toLowerCase(a)}}

legacyExchanged(a, b) ==
    {[id |-> agentMessages[i]._id, at |-> agentMessages[i].timestamp] :
        i \in {j \in DOMAIN agentMessages :
                 LET m == agentMessages[j]
                     from == toLowerCase(getAgent(m.from).name)
                     to == toLowerCase(getAgent(m.to).name)
                 IN \/ from = toLowerCase(a) /\ to = toLowerCase(b)
                    \/ from = toLowerCase(b) /\ to = toLowerCase(a)}}

\* stamps lists, oldest first and each once, the Min2(k, n) most recent of
\* the n messages of exchanged
IsLatest(stamps, exchanged, k) ==
    /\ Len(stamps) = Min2(k, Cardinality(exchanged))
    /\ \A i \in DOMAIN stamps : stamps[i] \in exchanged
    /\ \A i, j \in DOMAIN stamps : i < j => stamps[i] # stamps[j] /\ stamps[i].at <= stamps[j].at
    /\ \A x \in exchanged :
          (\A i \in DOMAIN stamps : stamps[i] # x)
             => \A i \in DOMAIN stamps : x.at <= stamps[i].at

\* C11: getConversation(A, B, limit = k) returns exactly the min(k, n) most
\* recent of the n DMs exchanged between A and B in either direction, oldest
\* first, for every integer k >= 0 (k = 0 returns the empty sequence);
\* without a limit it returns all n, oldest first; a DM that involves a third
\* agent is never included.  On the unified and on the legacy surface.
C11_ConversationLimit ==
    \A a, b \in Callers :
       /\ \A k \in Limits :
             /\ IsLatest(unifiedStamps(getConversation(DB, a, b, <<k>>)),
                         unifiedExchanged(a, b), k)
             /\ IsLatest(legacyStamps(agentMessaging_getConversation(DB, a, b, <<k>>)),
                         legacyExchanged(a, b), k)
       /\ IsLatest(unifiedStamps(getConversation(DB, a, b, NoLimit)),
                   unifiedExchanged(a, b), Cardinality(unifiedExchanged(a, b)))
       /\ IsLatest(legacyStamps(agentMessaging_getConversation(DB, a, b, NoLimit)),
                   legacyExchanged(a, b), Cardinality(legacyExchanged(a, b)))

----------------------------------------------------------------------------
(* C12 *)

\* The short names of the known agents
KnownAgents == { <<"m","a","x">>, <<"s","a","m">>, <<"l","e","o">>, <<"s","o","n">> }

\* The text holds the marker @<name>, in any letter case
HasMarker(content, name) ==
    \E i \in 1..(Len(content) - Len(name)) :
       toLowerCase(SubSeq(content, i, i + Len(name))) = <<"@">> \o name

Parsed == last.op = "parseMentions"

\* C12: for every text that contains the wildcard marker @all, in any letter
\* case, parseMentions returns exactly the full known-agent set max, sam,
\* leo, son, each once, whatever other markers the text holds.
C12_WildcardGivesEveryAgent ==
    (Parsed /\ HasMarker(last.args.content, <<"a","l","l">>))
       => /\ Len(last.ret) = 4
          /\ {last.ret[k] : k \in DOMAIN last.ret} = KnownAgents

\* Witness of C12: a text with the wildcard in mixed case after another
\* marker has been parsed into the four names.
C12_Witness ==
    /\ Parsed
    /\ last.args.content = <<"@","M","a","x","@","A","l","L">>
    /\ Len(last.ret) = 4

----------------------------------------------------------------------------
(* C13 *)

\* C13: for every text without the wildcard marker, parseMentions returns
\* exactly the distinct known agent names that appear as @<Name> markers,
\* lower-cased and each once, whatever the letter case and the number of
\* repetitions of a marker; a text with no marker yields nothing.
C13_DistinctNamesLowerCased ==
    (Parsed /\ ~HasMarker(last.args.content, <<"a","l","l">>))
       => /\ {last.ret[k] : k \in DOMAIN last.ret}
                = {n \in KnownAgents : HasMarker(last.args.content, n)}
          /\ \A j, k \in DOMAIN last.ret : j # k => last.ret[j] # last.ret[k]

\* Witness of C13: a text that repeats a marker in two letter cases beside
\* another marker has been parsed into the two names.
C13_Witness ==
    /\ Parsed
    /\ last.args.content = <<"@","M","a","x","@","m","A","X","@","S","a","m">>
    /\ last.ret = << <<"m","a","x">>, <<"s","a","m">> >>

----------------------------------------------------------------------------
(* C14 *)

\* C14: postComment with a ticket reference that resolves to no ticket fails
\* with NotFound and leaves the store as it was: no unified message, no
\* notification and no activity-log entry is written.
C14_UnknownTicketFailsWritingNothing ==
    [][(last'.op = "postComment" /\ getTask(last'.args.taskId) = NoTask)
          => /\ ~last'.ok
             /\ last'.ret.error = "Task not found"
             /\ DB' = DB]_vars

\* Witness of C14: a comment by a known agent, with mentions, on a ticket
\* that does not exist was refused, and the store still holds what an earlier
\* comment wrote and nothing more.
C14_Witness ==
    /\ last.op = "postComment" /\ ~last.ok
    /\ last.args.taskId = "task9"
    /\ last.args.agentName = sam
    /\ Len(unifiedMessages) = 1
    /\ Len(activityEvents) = 1
    /\ \A k \in DOMAIN notifications : notifications[k].relatedTask = "task1"
    /\ notifications # <<>>

----------------------------------------------------------------------------
(* C15 *)

\* The DM a sendDM step has stored
SentDM == unifiedMessages'[Len(unifiedMessages')]

SendDMStep == last'.op = "sendDM" /\ Len(unifiedMessages') = Len(unifiedMessages) + 1

\* C15: a DM sent with priority urgent is returned by getDMs for its
\* recipient with priority urgent, and its notification title carries the
\* urgent marker; a DM sent with the priority omitted is stored, returned by
\* sendDM and returned by getDMs with priority normal, and its notification
\* title carries no urgent marker.  The notification is the one the call
\* writes, which it does when both names resolve.
C15_PriorityRoundTrip ==
    [][SendDMStep =>
         LET expected == IF last'.args.priority = "urgent" THEN "urgent" ELSE "normal"
             inbox == getDMs(DB', last'.args.to, FALSE)
             mine == SelectSeq(inbox, LAMBDA r : r.message._id = last'.ret.messageId)
         IN /\ last'.ok
            /\ last'.ret.priority = expected
            /\ SentDM.priority = expected
            /\ Len(mine) = 1
            /\ mine[1].message.priority = expected
            /\ (Resolves(toLowerCase(last'.args.from)) /\ Resolves(toLowerCase(last'.args.to)))
                  => Len(Inserted) = 1
            /\ \A k \in DOMAIN Inserted :
                  /\ Inserted[k].type = "dm"
                  /\ includes(Inserted[k].title, UrgentMarker) <=> (expected = "urgent")]_vars

\* Witness of C15: an urgent DM from Max has just reached sam after a DM
\* with no priority given; getDMs lists the first as urgent and the second
\* as normal, and the two notification titles differ by the marker.
C15_Witness ==
    /\ last.op = "sendDM" /\ last.args.priority = "urgent" /\ last.args.from = Max
    /\ Len(getDMs(DB, sam, FALSE)) = 2
    /\ getDMs(DB, sam, FALSE)[1].message.priority = "urgent"
    /\ getDMs(DB, sam, FALSE)[2].message.priority = "normal"
    /\ Len(notifications) = 2
    /\ notifications[1].title = <<"DM from ", "M", "a", "x">>
    /\ notifications[2].title = <<UrgentMarker, "Urgent DM from ", "M", "a", "x">>

----------------------------------------------------------------------------
(* C20 *)

\* The ids of the tickets that exist
TicketIds == {tasks[i]._id : i \in DOMAIN tasks}

\* C20: when sendDM is given a ticket reference that does not resolve, the
\* DM is still created, with no human-readable ticket identifier on it, and
\* the call succeeds; when the reference resolves, the human identifier of
\* the ticket is stored on the message.
C20_TicketIsBestEffort ==
    [][(last'.op = "sendDM" /\ last'.args.relatedTaskId # NoId) =>
         LET ref == last'.args.relatedTaskId
         IN /\ last'.ok
            /\ Len(unifiedMessages') = Len(unifiedMessages) + 1
            /\ SentDM._id = last'.ret.messageId
            /\ SentDM.type = "dm"
            /\ SentDM.content = last'.args.content
            /\ SentDM.taskId = ref
            /\ ref \notin TicketIds => SentDM.linearIdentifier = Undef
            /\ \A i \in DOMAIN tasks :
                  tasks[i]._id = ref => SentDM.linearIdentifier = tasks[i].linearIdentifier]_vars

\* Witness of C20: a DM referring to a ticket that does not exist has just
\* been stored without identifier, after a DM referring to task1 that
\* carries the identifier of task1.
C20_Witness ==
    /\ last.op = "sendDM" /\ last.ok /\ last.args.relatedTaskId = "task9"
    /\ Len(unifiedMessages) = 2
    /\ unifiedMessages[2].taskId = "task9"
    /\ unifiedMessages[2].linearIdentifier = Undef
    /\ unifiedMessages[1].taskId = "task1"
    /\ unifiedMessages[1].linearIdentifier = <<"A","G","T","-","9">>

----------------------------------------------------------------------------
(* C16 *)

\* The ids of the messages a sweep for the agent finds unread in a store:
\* the unread DMs addressed to it and the unread comments that mention it
UnreadFor(db, agent) ==
    {db.unifiedMessages[i]._id :
        i \in {j \in DOMAIN db.unifiedMessages :
                 LET m == db.unifiedMessages[j]
                 IN \/ m.type = "dm" /\ m.toAgent = agent /\ m.read = "false"
                    \/ m.type = "comment" /\ m.read # "true" /\ includes(m.mentions, agent)}}

\* C16: when sendDM or postComment requests addressed to an agent interleave
\* with markAllRead(agent), every message markAllRead did not see as unread
\* at its start is after it as it was before, a message that arrives after
\* it is unread, and the result of markAllRead counts exactly the items that
\* were unread in the one snapshot taken at its start.
C16_SweepTakesOneSnapshot ==
    [][/\ last'.op = "markAllRead" =>
            LET seen == UnreadFor(DB, toLowerCase(last'.args.agentName))
            IN /\ last'.ok
               /\ last'.ret.marked = Cardinality(seen)
               /\ Len(unifiedMessages') = Len(unifiedMessages)
               /\ \A i \in DOMAIN unifiedMessages :
                     unifiedMessages'[i] =
                        IF unifiedMessages[i]._id \in seen
                        THEN [unifiedMessages[i] EXCEPT !.read = "true"]
                        ELSE unifiedMessages[i]
       /\ (last'.op \in {"sendDM", "postComment"} /\ last'.ok) =>
            /\ Len(unifiedMessages') = Len(unifiedMessages) + 1
            /\ SentDM.read # "true"
            /\ SentDM.type = "dm" => SentDM._id \in UnreadFor(DB', SentDM.toAgent)
            /\ \A k \in DOMAIN SentDM.mentions :
                  SentDM._id \in UnreadFor(DB', SentDM.mentions[k])
            /\ \A i \in DOMAIN unifiedMessages : unifiedMessages'[i] = unifiedMessages[i]]_vars

\* Witness of C16: a DM reached sam, markAllRead(sam) swept it, and a second
\* DM has just reached sam: the first is read, the second unread and counted.
C16_Witness ==
    /\ last.op = "sendDM"
    /\ Len(unifiedMessages) = 2
    /\ unifiedMessages[1].type = "dm" /\ unifiedMessages[1].toAgent = toLowerCase(sam)
    /\ unifiedMessages[1].read = "true"
    /\ unifiedMessages[2].type = "dm" /\ unifiedMessages[2].toAgent = toLowerCase(sam)
    /\ unifiedMessages[2].read = "false"
    /\ getUnreadCount(DB, sam).dms = 1

----------------------------------------------------------------------------
(* C17 *)

\* Applying a marking handler to an item of the store: the outcome of the
\* first application and of a second one right after it
Once(r) == r.ok /\ r.ret = [success |-> TRUE]

----------------------------------------------------------------------------
(* C18 *)

\* The agent directory holds an agent of this lower-cased name
InDirectory(nameLower) == \E i \in DOMAIN agents : toLowerCase(agents[i].name) = nameLower

\* The names a text mentions, read off its markers
Mentioned(content) ==
    IF HasMarker(content, <<"a","l","l">>) THEN KnownAgents
    ELSE {n \in KnownAgents : HasMarker(content, n)}

\* The comment a postComment step has stored
Posted == unifiedMessages'[Len(unifiedMessages')]

\* A postComment on an existing ticket whose text mentions a name that the
\* directory does not hold
PostsUnknownMention ==
    /\ last'.op = "postComment"
    /\ last'.args.taskId \in TicketIds
    /\ \E n \in Mentioned(last'.args.content) : ~InDirectory(n)

\* The call has succeeded, its comment is stored, and every mentioned agent
\* of the directory other than the sender has got its one notification
FanOutReachesTheOthers ==
    /\ last'.ok
    /\ Len(unifiedMessages') = Len(unifiedMessages) + 1
    /\ Posted._id = last'.ret.messageId
    /\ Posted.content = last'.args.content
    /\ \A n \in Mentioned(last'.args.content) \ {toLowerCase(last'.args.agentName)} :
          InDirectory(n) =>
             Len(SelectSeq(Inserted,
                           LAMBDA x : Addressee(x) = n /\ x.type = "mention" /\ ~x.read)) = 1

\* C18 as stated: fan-out failures are per recipient: when the mention set of
\* a comment holds a name that does not resolve in the agent directory,
\* postComment still succeeds, the comment stays persisted, and every other
\* mentioned agent that does resolve, other than the sender, still receives
\* its one notification.
C18_FanOutPerRecipient ==
    [][PostsUnknownMention => FanOutReachesTheOthers]_vars

\* C18 amended: the same, for a sender that the agent directory holds; a
\* comment of a sender it does not hold is stored without any notification.
C18_FanOutPerRecipientOfKnownSender ==
    [][PostsUnknownMention =>
          IF InDirectory(toLowerCase(last'.args.agentName))
          THEN FanOutReachesTheOthers
          ELSE /\ last'.ok
               /\ Len(unifiedMessages') = Len(unifiedMessages) + 1
               /\ Inserted = <<>>]_vars

\* Witness of C18: with no agent named son in the directory, sam has posted
\* the wildcard body, which mentions son, and max and leo hold a notification each.
C18_Witness ==
    /\ last.op = "postComment" /\ last.ok
    /\ last.args.agentName = sam /\ last.args.content = BodyAll
    /\ ~InDirectory(<<"s","o","n">>)
    /\ Len(unifiedMessages) = 1
    /\ Len(notifications) = 2
    /\ {notifications[k].to : k \in DOMAIN notifications} = {"agent1", "agent3"}

----------------------------------------------------------------------------
(* C19 *)

\* C19: when postComment is called with an existing ticket but a sender name
\* that is not in the agent directory, the call succeeds and the comment is
\* persisted and returned by getTaskComments, while no notification and no
\* activity-log entry is written.
C19_UnknownSenderOnlyPersists ==
    [][(/\ last'.op = "postComment"
        /\ last'.args.taskId \in TicketIds
        /\ ~InDirectory(toLowerCase(last'.args.agentName)))
       => /\ last'.ok
          /\ Len(unifiedMessages') = Len(unifiedMessages) + 1
          /\ Posted._id = last'.ret.messageId
          /\ Posted.content = last'.args.content
          /\ \E k \in DOMAIN getTaskComments(DB', last'.args.taskId) :
                getTaskComments(DB', last'.args.taskId)[k].message = Posted
          /\ notifications' = notifications
          /\ activityEvents' = activityEvents]_vars

\* Witness of C19: bob, whom the directory does not hold, has commented on
\* task1 after sam; getTaskComments lists both comments, and the
\* notifications and the activity log are those of sam's comment alone.
C19_Witness ==
    /\ last.op = "postComment" /\ last.ok
    /\ last.args.agentName = bob /\ last.args.content = BodyAll
    /\ Len(getTaskComments(DB, "task1")) = 2
    /\ getTaskComments(DB, "task1")[2].agentName = bob
    /\ getTaskComments(DB, "task1")[2].message._id = last.ret.messageId
    /\ notifications # <<>>
    /\ \A k \in DOMAIN notifications : notifications[k].from = "agent2"
    /\ Len(activityEvents) = 1

----------------------------------------------------------------------------
(* C21 *)

\* The stored unified DMs addressed to an agent, the unread ones only if asked
AddressedDMs(agentName, unreadOnly) ==
    {unifiedMessages[i] : i \in
        {j \in DOMAIN unifiedMessages :
            /\ unifiedMessages[j].type = "dm"
            /\ unifiedMessages[j].toAgent = toLowerCase(agentName)
            /\ unreadOnly => unifiedMessages[j].read = "false"}}

\* The stored legacy DMs addressed to an agent, the unread ones only if asked
AddressedLegacyDMs(agentName, unreadOnly) ==
    {agentMessages[i] : i \in
        {j \in DOMAIN agentMessages :
            /\ InDirectory(toLowerCase(agentName))
            /\ toLowerCase(getAgent(agentMessages[j].to).name) = toLowerCase(agentName)
            /\ unreadOnly => agentMessages[j].status = "unread"}}

\* The messages a list of results carries
Carried(results) == {results[k].message : k \in DOMAIN results}

\* A list of results holds exactly the messages of a set, each once
ListsExactly(results, messages) ==
    /\ Carried(results) = messages
    /\ Len(results) = Cardinality(messages)

\* The time stamps of a list of results never go up: newest first
NewestFirst(stamps) == \A k, l \in DOMAIN stamps : k < l => stamps[k].at >= stamps[l].at

\* C21: getDMs(agent, unreadOnly) returns only DMs addressed to the agent
\* (never DMs the agent sent to others and never comments), newest-first; with
\* unreadOnly = true it returns exactly those with read = false, and with
\* unreadOnly false (an omitted unreadOnly is as falsy as false) it returns
\* both read and unread ones.  The same for getDirectMessages on the legacy
\* table.
C21_GetDMsListsTheInbox ==
    \A a \in Callers, u \in BOOLEAN :
       /\ ListsExactly(getDMs(DB, a, u), AddressedDMs(a, u))
       /\ NewestFirst(unifiedStamps(getDMs(DB, a, u)))
       /\ ListsExactly(getDirectMessages(DB, a, u), AddressedLegacyDMs(a, u))
       /\ NewestFirst(legacyStamps(getDirectMessages(DB, a, u)))

\* Witness of C21: Max has sent sam a DM, which sam has read, and then one
\* to Max, which is unread: getDMs of sam lists the first whatever its flag
\* and nothing when asked for the unread ones, and getDMs of Max lists the
\* second and not the one Max sent to sam.
C21_Witness ==
    /\ Len(unifiedMessages) = 2
    /\ unifiedMessages[1].fromAgent = toLowerCase(Max) /\ unifiedMessages[1].toAgent = sam
    /\ unifiedMessages[1].read = "true"
    /\ unifiedMessages[2].toAgent = toLowerCase(Max) /\ unifiedMessages[2].read = "false"
    /\ Len(getDMs(DB, sam, FALSE)) = 1
    /\ getDMs(DB, sam, FALSE)[1].message = unifiedMessages[1]
    /\ getDMs(DB, sam, TRUE) = <<>>
    /\ Carried(getDMs(DB, Max, FALSE)) = {unifiedMessages[2]}

----------------------------------------------------------------------------
(* C23 *)

\* A message with its read flag blanked: everything that may not change
Written(m) == [m EXCEPT !.read = "any"]

\* C23: unified messages are write-once: across every sequence of operations,
\* a persisted message is never deleted and none of its fields other than the
\* read flag (sender, recipient, ticket reference, body, kind, mention set,
\* priority, creation timestamp) ever changes.
C23_MessagesAreWriteOnce ==
    [][/\ Len(unifiedMessages') >= Len(unifiedMessages)
       /\ \A i \in DOMAIN unifiedMessages :
             Written(unifiedMessages'[i]) = Written(unifiedMessages[i])]_vars

\* Witness of C23: markRead has set the flag of a comment after a DM was
\* stored: the comment still carries its sender, body and mention set, and
\* the DM stands untouched.
C23_Witness ==
    /\ last.op = "markRead" /\ last.args.messageId = 1
    /\ Len(unifiedMessages) = 2
    /\ unifiedMessages[1].type = "comment" /\ unifiedMessages[1].read = "true"
    /\ unifiedMessages[1].content = BodyTwo
    /\ unifiedMessages[1].fromAgent = toLowerCase(Max)
    /\ unifiedMessages[1].mentions = << <<"l","e","o">>, <<"s","a","m">> >>
    /\ unifiedMessages[2].type = "dm" /\ unifiedMessages[2].read = "false"

----------------------------------------------------------------------------
(* C24 *)

LegacyCalls == {"sendDirectMessage", "agentMessaging.markAsRead", "agentMessaging.markAllAsRead"}
UnifiedCalls == {"postComment", "sendDM", "markRead", "markAllRead"}

\* The two agents that exchange messages, as the queries are made for them
Correspondents == {Max, sam}

\* Everything the queries of the unified module return from a store
UnifiedAnswers(db) ==
    UNION ({Carried(getDMs(db, a, u)) : a \in Correspondents, u \in BOOLEAN}
           \cup {Carried(getConversation(db, Max, sam, NoLimit))}
           \cup {Carried(getUnread(db, a).dms) : a \in Correspondents}
           \cup {Carried(getUnread(db, a).mentions) : a \in Correspondents}
           \cup {Carried(getTaskComments(db, t)) : t \in TicketIds}
           \cup {Carried(getCommentsByLinearId(db, getTask(t).linearIdentifier)) : t \in TicketIds}
           \cup {Carried(listRecent(db, NoLimit))})

\* C24: the legacy and unified storage tracks never merge: legacy
\* sendDirectMessage, markAsRead and markAllAsRead leave the unified message
\* table unchanged, unified postComment, sendDM, markRead and markAllRead
\* leave the legacy message table unchanged, and no unified query returns a
\* record of the legacy table.
C24_TracksNeverMerge ==
    [][/\ last'.op \in LegacyCalls => unifiedMessages' = unifiedMessages
       /\ last'.op \in UnifiedCalls => agentMessages' = agentMessages
       /\ LET answers == UnifiedAnswers(DB')
          IN /\ answers \subseteq {unifiedMessages'[i] : i \in DOMAIN unifiedMessages'}
             /\ answers \cap {agentMessages'[i] : i \in DOMAIN agentMessages'} = {}]_vars

\* Witness of C24: a legacy DM to sam has been sent and marked read beside a
\* unified DM to sam, which is still unread and is all that getDMs returns.
C24_Witness ==
    /\ last.op = "agentMessaging.markAllAsRead" /\ last.ok /\ last.ret.marked = 1
    /\ Len(agentMessages) = 1 /\ agentMessages[1].status = "read"
    /\ Len(unifiedMessages) = 1 /\ unifiedMessages[1].read = "false"
    /\ Carried(getDMs(DB, sam, TRUE)) = {unifiedMessages[1]}
    /\ UnifiedAnswers(DB) = {unifiedMessages[1]}

----------------------------------------------------------------------------
(* C25 *)

\* The stored comments of a ticket, and those that carry an identifier
CommentsOfTicket(taskId) ==
    {unifiedMessages[i] : i \in
        {j \in DOMAIN unifiedMessages :
            unifiedMessages[j].type = "comment" /\ unifiedMessages[j].taskId = taskId}}

CommentsOfIdentifier(linearIdentifier) ==
    {unifiedMessages[i] : i \in
        {j \in DOMAIN unifiedMessages :
            /\ unifiedMessages[j].type = "comment"
            /\ unifiedMessages[j].linearIdentifier = linearIdentifier}}

\* Ascending creation time, and insertion order where the times are equal
OldestFirstStable(stamps) ==
    \A k, l \in DOMAIN stamps :
       k < l => \/ stamps[k].at < stamps[l].at
                \/ stamps[k].at = stamps[l].at /\ stamps[k].id < stamps[l].id

\* The identifiers a ticket can carry
LinearIds == {tasks[i].linearIdentifier : i \in DOMAIN tasks} \ {Undef}

\* C25: getTaskComments returns all comments of the ticket and only comments
\* (no DMs that carry the same ticket reference), in ascending creation time;
\* comments with an identical timestamp appear in insertion order, and
\* repeated calls on an unchanged store return the same order: a step that
\* stores no comment leaves the order of every list as it was.  The same for
\* getCommentsByLinearId.
C25_CommentsOldestFirst ==
    [][/\ \A t \in TicketIds :
             /\ ListsExactly(getTaskComments(DB', t), CommentsOfTicket(t)')
             /\ OldestFirstStable(unifiedStamps(getTaskComments(DB', t)))
             /\ last'.op # "postComment" =>
                   unifiedStamps(getTaskComments(DB', t)) = unifiedStamps(getTaskComments(DB, t))
       /\ \A id \in LinearIds :
             /\ ListsExactly(getCommentsByLinearId(DB', id), CommentsOfIdentifier(id)')
             /\ OldestFirstStable(unifiedStamps(getCommentsByLinearId(DB', id)))
             /\ last'.op # "postComment" =>
                   unifiedStamps(getCommentsByLinearId(DB', id))
                      = unifiedStamps(getCommentsByLinearId(DB, id))]_vars

\* Witness of C25: a DM that carries the reference of task1 was stored at the
\* time of a comment on task1, and getTaskComments lists the comment alone.
C25_Witness ==
    /\ Len(unifiedMessages) = 2
    /\ unifiedMessages[1].type = "dm" /\ unifiedMessages[1].taskId = "task1"
    /\ unifiedMessages[2].type = "comment" /\ unifiedMessages[2].taskId = "task1"
    /\ unifiedMessages[1].createdAt = unifiedMessages[2].createdAt
    /\ Carried(getTaskComments(DB, "task1")) = {unifiedMessages[2]}
    /\ Carried(getCommentsByLinearId(DB, unifiedMessages[1].linearIdentifier)) = {unifiedMessages[2]}

----------------------------------------------------------------------------
(* C26 *)

\* A DM has been stored, on either surface; its body as stored
DMStep ==
    \/ last'.op = "sendDM" /\ Len(unifiedMessages') = Len(unifiedMessages) + 1
    \/ last'.op = "sendDirectMessage" /\ Len(agentMessages') = Len(agentMessages) + 1

StoredBody ==
    IF last'.op = "sendDM" THEN unifiedMessages'[Len(unifiedMessages')].content
    ELSE agentMessages'[Len(agentMessages')].content

\* The first n characters of a text, marked when something was cut
Cut(content, n) ==
    IF Len(content) <= n THEN content ELSE SubSeq(content, 1, n) \o <<"...">>

\* The identifier of the ticket a call refers to, if there is any
IdentifierOf(call) ==
    IF call.args.relatedTaskId \in TicketIds
    THEN getTask(call.args.relatedTaskId).linearIdentifier
    ELSE Undef

\* C26: the stored DM body is always the full body given to sendDM, whatever
\* its length; the notification body for a DM without a ticket is the body
\* itself when it has at most 150 characters and otherwise its first 150
\* characters followed by the ellipsis marker; with a ticket identifier
\* present it is the identifier prefix followed by at most the first 100
\* characters of the body, with the ellipsis marker exactly when the body is
\* longer than 100 characters.  The same for sendDirectMessage.  A character
\* is a unit of the string, as length and slice count them.
C26_BodyStoredWholePreviewCut ==
    [][DMStep =>
         /\ StoredBody = last'.args.content
         /\ \A k \in DOMAIN Inserted :
               Inserted[k].message =
                  IF IdentifierOf(last') # Undef
                  THEN <<"Re: ">> \o IdentifierOf(last') \o <<" -- ">> \o Cut(last'.args.content, 100)
                  ELSE Cut(last'.args.content, 150)]_vars

\* Witness of C26: Max has sent sam 200 characters without a ticket after
\* 101 characters on a ticket: both are stored whole, and the notifications
\* carry 150 and 100 of them before the ellipsis marker.
C26_Witness ==
    /\ last.op = "sendDM" /\ last.args.relatedTaskId = NoId
    /\ Len(unifiedMessages) = 2 /\ Len(notifications) = 2
    /\ Len(unifiedMessages[1].content) = 101 /\ unifiedMessages[1].taskId = "task1"
    /\ Len(unifiedMessages[2].content) = 200
    /\ notifications[2].message = SubSeq(unifiedMessages[2].content, 1, 150) \o <<"...">>
    /\ Len(notifications[1].message) = 2 + Len(unifiedMessages[1].linearIdentifier) + 100 + 1
    /\ notifications[1].message[Len(notifications[1].message)] = "..."

----------------------------------------------------------------------------
(* C27 *)

IsLetter(c) == includes(UpperLetters, c) \/ includes(LowerLetters, c)

\* The name of the marker at position i of a text: the letters that follow
\* the @ up to the first character that is no letter, lower-cased
RECURSIVE LettersFrom(_, _)
LettersFrom(content, i) ==
    IF i > Len(content) \/ ~IsLetter(content[i]) THEN <<>>
    ELSE <<LowerChar(content[i])>> \o LettersFrom(content, i + 1)

\* The names of all markers of a text
MarkerNames(content) ==
    {LettersFrom(content, i + 1) : i \in {j \in DOMAIN content : content[j] = "@"}}

\* C27: parseMentions ignores every @<Name> marker whose name is not in the
\* closed set {max, sam, leo, son, all}: such a marker, including a name that
\* merely starts with a known name (for example @Samuel or @Leonard or
\* @allison), adds no agent to the result and raises no error: the result
\* holds the agents that the markers with a name of the closed set give, and
\* no other.
C27_UnknownMarkersIgnored ==
    last.op = "parseMentions" =>
        /\ last.ok
        /\ {last.ret[k] : k \in DOMAIN last.ret}
              = IF <<"a","l","l">> \in MarkerNames(last.args.content)
                THEN KnownAgents
                ELSE MarkerNames(last.args.content) \cap KnownAgents

----------------------------------------------------------------------------
(* C28 *)

\* C28: legacy sendDirectMessage with an unknown sender or an unknown
\* recipient throws before any write: the legacy message table, the
\* notifications and the activity log are all unchanged; and on success it
\* writes exactly one legacy message with status unread, exactly one dm
\* notification to the recipient and exactly one activity entry.
C28_LegacySendAllOrNothing ==
    [][last'.op = "sendDirectMessage" =>
         IF /\ InDirectory(toLowerCase(last'.args.from))
            /\ InDirectory(toLowerCase(last'.args.to))
         THEN /\ last'.ok
              /\ Len(agentMessages') = Len(agentMessages) + 1
              /\ SubSeq(agentMessages', 1, Len(agentMessages)) = agentMessages
              /\ agentMessages'[Len(agentMessages')].status = "unread"
              /\ agentMessages'[Len(agentMessages')].content = last'.args.content
              /\ agentMessages'[Len(agentMessages')]._id = last'.ret.messageId
              /\ Len(Inserted) = 1
              /\ SubSeq(notifications', 1, Len(notifications)) = notifications
              /\ Inserted[1].type = "dm" /\ ~Inserted[1].read
              /\ Addressee(Inserted[1]) = toLowerCase(last'.args.to)
              /\ Len(activityEvents') = Len(activityEvents) + 1
              /\ SubSeq(activityEvents', 1, Len(activityEvents)) = activityEvents
         ELSE /\ ~last'.ok
              /\ agentMessages' = agentMessages
              /\ notifications' = notifications
              /\ activityEvents' = activityEvents]_vars

\* Witness of C28: a legacy DM to a name outside the directory was refused
\* after one from Max to sam was stored with its notification and its
\* activity entry, which are all the store holds.
C28_Witness ==
    /\ last.op = "sendDirectMessage" /\ ~last.ok
    /\ last.args.from = Max /\ last.args.to = bob
    /\ Len(agentMessages) = 1 /\ agentMessages[1].status = "unread"
    /\ Len(notifications) = 1 /\ notifications[1].to = "agent2"
    /\ Len(activityEvents) = 1

----------------------------------------------------------------------------
(* C30 *)

\* C30: the number returned by markAllRead(agent) equals
\* getUnreadCount(agent).total evaluated on the state just before the call,
\* in every reachable state, including states that hold comments in which
\* the agent mentions their own name or uses the wildcard.
C30_MarkedIsTheUnreadTotal ==
    [][last'.op = "markAllRead" =>
          last'.ret.marked = getUnreadCount(DB, last'.args.agentName).total]_vars

----------------------------------------------------------------------------
(* C22 *)

\* The stored comments that are unread mentions of an agent
UnreadMentions(agentName) ==
    {unifiedMessages[i] : i \in
        {j \in DOMAIN unifiedMessages :
            /\ unifiedMessages[j].type = "comment"
            /\ unifiedMessages[j].read # "true"
            /\ includes(unifiedMessages[j].mentions, toLowerCase(agentName))
            /\ unifiedMessages[j].fromAgent # toLowerCase(agentName)}}

\* A list holds the n most recent messages of a pool, or all of them when
\* the pool has fewer, each once, newest first
MostRecent(results, pool, n) ==
    /\ Carried(results) \subseteq pool
    /\ Cardinality(Carried(results)) = Len(results)
    /\ Len(results) = IF Cardinality(pool) < n THEN Cardinality(pool) ELSE n
    /\ NewestFirst(unifiedStamps(results))
    /\ \A listed \in Carried(results), other \in pool \ Carried(results) :
          listed.createdAt >= other.createdAt

----------------------------------------------------------------------------
(* C29 *)

\* C29: in every reachable state and for every agent, the count block
\* returned by getUnread(agent) equals the result of getUnreadCount(agent):
\* the same dms, mentions and total, also when the agent has more than 10
\* unread DMs or more than 10 unread mentions; and in both results
\* total = dms + mentions.
C29_UnreadCountsAgree ==
    \A a \in Callers :
       /\ getUnread(DB, a).count = getUnreadCount(DB, a)
       /\ getUnread(DB, a).count.total
             = getUnread(DB, a).count.dms + getUnread(DB, a).count.mentions
       /\ getUnreadCount(DB, a).total = getUnreadCount(DB, a).dms + getUnreadCount(DB, a).mentions

====
